---- MODULE Spec2Model ----
(***************************************************************************)
(* A model of ApplyExif (src/apply_exif.py): the contiguous-index grouper, *)
(* the range autofill of the table, and the batch export path main().      *)
(*                                                                         *)
(* Row positions are 0-based as in the source; TLA+ sequences are 1-based, *)
(* so row i of the table is tree[i + 1].                                   *)
(***************************************************************************)
EXTENDS Integers, Sequences, FiniteSets, TLC

VARIABLES
    indices,        \* SpecGroup: the caller's list handed to group_continuous_indices
    arg,            \* SpecGroup: the list as it was when the call was made
    groups,         \* SpecGroup: the value returned
    called,         \* SpecGroup: the call has returned
    csv_data_type,  \* self.csv_data_type: "CSV_OLD" or "CSV"
    tree,           \* the rows of self.tree, each a sequence of cells
    selection,      \* self.tree.selection() as a set of row positions
    pre,            \* the rows as they were when the last handler started
    op,             \* the last handler that ran
    raised,         \* the last handler ended with an uncaught exception
    fills,          \* runs of on_autofill since the load
    selects,        \* changes of the selection since the load
    toolOk,         \* batch: what check_exiftool() answers
    directory,      \* batch: the files of the directory, in iterdir() order
    csv_rows,       \* batch: the rows csv.reader yields after the header
    images,         \* batch: main's images
    exif_data,      \* batch: main's exif_data
    camera,         \* batch: args.camera
    bpc,            \* batch: where main() is
    k,              \* batch: rows of the zip already consumed
    invocations,    \* batch: the os.system calls made, in order
    ss_text,        \* SpecShutter: the text handed to ss_to_float
    seconds,        \* SpecShutter: what the call returned or raised
    converted,      \* SpecShutter: the call has ended
    photos,         \* SpecTable: len(self.photos_listpreview)
    csv_file,       \* SpecTable: the rows of the csv file, header first
    loaded,         \* SpecTable: how the last combined_load ended
    steps,          \* SpecTable: handlers run since the program started
    processes,      \* SpecTable: the external processes on_export started
    all_commands    \* SpecTable: the list the last on_export composed

vars == <<indices, arg, groups, called, csv_data_type, tree, selection, pre, op,
          raised, fills, selects, toolOk, directory, csv_rows, images, exif_data, camera,
          bpc, k, invocations, ss_text, seconds, converted, photos, csv_file, loaded,
          steps, processes, all_commands>>

groupVars == <<indices, arg, groups, called>>
guiVars   == <<csv_data_type, tree, selection, pre, op, raised, fills,
              selects>>
batchVars == <<toolOk, directory, csv_rows, images, exif_data, camera, bpc, k,
               invocations>>
shutterVars == <<ss_text, seconds, converted>>
tableVars == <<photos, csv_file, loaded, steps, processes, all_commands>>

(***************************************************************************)
(* Bounds of the model.                                                    *)
(***************************************************************************)
MaxPos  == 5    \* row positions handed to the grouper are 0 .. MaxPos - 1
MaxRows == 5    \* rows of the table
MaxFills == 1   \* runs of on_autofill after a load
MaxSelects == 1 \* changes of the selection after a load
MaxFiles == 3   \* files in the directory of the batch path
MaxCsv  == 3    \* data rows in the csv file of the batch path

Max(a, b) == IF a >= b THEN a ELSE b
Last(s) == s[Len(s)]
Range(s) == { s[i] : i \in 1..Len(s) }

(***************************************************************************)
(* Cell values.  A cell holds text.  Text is a record: plain text carries  *)
(* its characters; text that matches the date pattern                      *)
(* "%b %d, %Y at %H:%M" carries the fields the pattern reads, and `pad`    *)
(* tells "Dec 01" from "Dec 1" (strptime reads both, strftime writes the   *)
(* first).  None is Python's None.                                         *)
(***************************************************************************)
None == [kind |-> "None"]
Txt(chars) == [kind |-> "text", s |-> chars]
Empty == Txt(<<>>)
DateText(mon, day, pad, year, hh, mm) ==
    [kind |-> "date", mon |-> mon, day |-> day, pad |-> pad, year |-> year,
     hh |-> hh, mm |-> mm]

\* Python truthiness of a value read from a cell: None and '' are falsy
Truthy(v) == v # None /\ v # Empty

(***************************************************************************)
(* datetime.  A datetime is counted in whole minutes from                  *)
(* 2024-12-01 00:00; the calendar covers Nov 2024 .. Jan 2025.             *)
(***************************************************************************)
MinutesPerDay == 1440
MicrosPerMinute == 60000000

MonthStart(mon) == CASE mon = "Nov" -> -30
                     [] mon = "Dec" -> 0
                     [] mon = "Jan" -> 31

\* datetime.datetime.strptime(v, "%b %d, %Y at %H:%M") succeeds
Parses(v) == v.kind = "date"

\* datetime.datetime.strptime(v, "%b %d, %Y at %H:%M"), for v that Parses
strptime(v) ==
    ((MonthStart(v.mon) + (v.day - 1)) * 24 + v.hh) * 60 + v.mm

\* datetime.datetime.strftime(t, "%b %d, %Y at %H:%M"): %d is zero-padded
strftime(t) ==
    LET d  == t \div MinutesPerDay
        r  == t % MinutesPerDay
        mon == IF d < 0 THEN "Nov" ELSE IF d < 31 THEN "Dec" ELSE "Jan"
    IN  DateText(mon, d - MonthStart(mon) + 1, TRUE,
                 IF d < 31 THEN 2024 ELSE 2025, r \div 60, r % 60)

(***************************************************************************)
(* timedelta arithmetic of the interpolation.  A timedelta is              *)
(* [m |-> minutes, us |-> microseconds], 0 <= us < MicrosPerMinute.        *)
(***************************************************************************)
\* _divide_and_round(a, b) of datetime.py for b > 0: nearest, ties to even
DivideAndRound(a, b) ==
    LET q == a \div b
        r == a % b
    IN  IF 2 * r > b \/ (2 * r = b /\ q % 2 = 1) THEN q + 1 ELSE q

\* (ref_end_dt - ref_start_dt) / n, a difference of whole minutes
TimedeltaDiv(minutes, n) ==
    LET q == minutes \div n
        r == minutes % n
        u == DivideAndRound(r * MicrosPerMinute, n)
    IN  [m |-> q + (u \div MicrosPerMinute), us |-> u % MicrosPerMinute]

\* mult * time_step
TimedeltaMul(mult, step) ==
    LET u == mult * step.us
    IN  [m |-> mult * step.m + (u \div MicrosPerMinute), us |-> u % MicrosPerMinute]

(***************************************************************************)
(* group_continuous_indices                                                *)
(***************************************************************************)
RECURSIVE Insert(_, _)
Insert(x, s) ==
    IF s = <<>> THEN <<x>>
    ELSE IF x < Head(s) THEN <<x>> \o s
    ELSE <<Head(s)>> \o Insert(x, Tail(s))

RECURSIVE SortedList(_)
\* indices.sort()
SortedList(s) == IF s = <<>> THEN <<>> ELSE Insert(Head(s), SortedList(Tail(s)))

\* a slip in the test of the loop: any larger index continues the group
Continues_AnyLarger(prev, cur) == cur > prev

\* the test of the loop: indices[i] == indices[i-1] + 1
Continues(prev, cur) == cur = prev + 1

RECURSIVE GroupLoop(_, _, _, _)
\* the for loop, from 0-based position i, with the lists built so far
GroupLoop(s, i, continuous_groups, current_group) ==
    IF i >= Len(s) THEN Append(continuous_groups, current_group)
    ELSE IF Continues(s[i], s[i + 1])
         THEN GroupLoop(s, i + 1, continuous_groups, Append(current_group, s[i + 1]))
         ELSE GroupLoop(s, i + 1, Append(continuous_groups, current_group), <<s[i + 1]>>)

\* the list the caller holds after the call: sorted in place unless empty
IndicesAfterCall(s) == IF s = <<>> THEN s ELSE SortedList(s)

group_continuous_indices(s) ==
    IF s = <<>> THEN <<>>
    ELSE LET sorted == IndicesAfterCall(s)
         IN  GroupLoop(sorted, 1, <<>>, <<sorted[1]>>)

(***************************************************************************)
(* The table: schemas, rows and cells.                                     *)
(***************************************************************************)
CSV_OLD_LEN == 8
CSV_LEN == 15
CSV_APERTURE == 2
CSV_OLD_DATE == 4
CSV_DATE == 9

\* len(self.csv_data_header), which combined_load ties to the schema
HeaderLen(type) == IF type = "CSV_OLD" THEN CSV_OLD_LEN ELSE CSV_LEN

\* self.csv_data_type.DATE.value
DateCol(type) == IF type = "CSV_OLD" THEN CSV_OLD_DATE ELSE CSV_DATE

\* self.tree.set(children[i], column=col): the cell of row i, column col
Cell(t, i, col) == t[i + 1][col + 1]

\* empty_row(): one '' per header column
empty_row(type) == [c \in 1..HeaderLen(type) |-> Empty]

(***************************************************************************)
(* autofill_group(indices, col_index).  The result is the table after the  *)
(* call and whether the call raised (strptime's ValueError is not caught). *)
(***************************************************************************)
\* where the start reference is read
RefStartIndex(group) == Max(0, group[1] - 1)

\* where the end reference is read
RefEndIndex(group) == Last(group) + 1

\* children[i] inside try/except IndexError: None when i is past the end
\* (ref_start_index is never negative, so no negative index reaches this)
RefAt(t, i, col) == IF i < Len(t) THEN Cell(t, i, col) ELSE None

\* the guard of the "everything is selected" early return
WholeListSelected(t, group) ==
    RefStartIndex(group) < 0 /\ RefEndIndex(group) >= Len(t)

\* a slip in the copy loop: the last row of the group is left out
FillSame_SkipsLast(t, group, col, v) ==
    [r \in 1..Len(t) |->
        IF r - 1 \in Range(group) /\ r - 1 # Last(group)
        THEN [t[r] EXCEPT ![col + 1] = v] ELSE t[r]]

\* for i in indices: set(children[i], value=v)
FillSame(t, group, col, v) ==
    [r \in 1..Len(t) |->
        IF r - 1 \in Range(group) THEN [t[r] EXCEPT ![col + 1] = v] ELSE t[r]]

\* a slip in the loop: the row after the group gets the last value too
FillEach_AlsoNextRow(t, group, col, vals) ==
    [r \in 1..Len(t) |->
        IF r - 1 \in Range(group)
        THEN [t[r] EXCEPT ![col + 1] =
                 vals[CHOOSE j \in 1..Len(group) : group[j] = r - 1]]
        ELSE IF r - 1 = Last(group) + 1 THEN [t[r] EXCEPT ![col + 1] = Last(vals)]
        ELSE t[r]]

\* for j, i in enumerate(indices): set(children[i], value=vals[j]); vals is
\* the sequence of the values, in the order of the group
FillEach(t, group, col, vals) ==
    [r \in 1..Len(t) |->
        IF r - 1 \in Range(group)
        THEN [t[r] EXCEPT ![col + 1] =
                 vals[CHOOSE j \in 1..Len(group) : group[j] = r - 1]]
        ELSE t[r]]

\* only the end reference: one minute less per row, walking back from the end
FromEndDate(ref_end, n, j) == strftime(strptime(ref_end) - ((n - 1 - j) + 1))

\* only the start reference: one minute more per row, walking forward
FromStartDate(ref_start, j) == strftime(strptime(ref_start) + (j + 1))

\* a slip in the step: the span is split into len(indices) steps
Interpolated_OneStepShort(ref_start, ref_end, n, j) ==
    LET time_step == TimedeltaDiv(strptime(ref_end) - strptime(ref_start), n)
    IN  strftime(strptime(ref_start) + TimedeltaMul(j + 1, time_step).m)

\* both references, date column: evenly spread timestamps
Interpolated(ref_start, ref_end, n, j) ==
    LET time_step == TimedeltaDiv(strptime(ref_end) - strptime(ref_start), n + 1)
    IN  strftime(strptime(ref_start) + TimedeltaMul(j + 1, time_step).m)

Returned(t) == [tree |-> t, raised |-> FALSE]
Raised(t)   == [tree |-> t, raised |-> TRUE]

autofill_group(t, group, col, type) ==
    LET is_date_col == col = DateCol(type)
        ref_start   == RefAt(t, RefStartIndex(group), col)
        ref_end     == RefAt(t, RefEndIndex(group), col)
        n           == Len(group)
    IN  IF WholeListSelected(t, group) THEN Returned(t)
        ELSE IF ~Truthy(ref_start) /\ Truthy(ref_end) THEN
            IF is_date_col
            THEN IF ~Parses(ref_end) THEN Raised(t)
                 ELSE Returned(FillEach(t, group, col,
                                        [j \in 1..n |-> FromEndDate(ref_end, n, j - 1)]))
            ELSE Returned(FillSame(t, group, col, ref_end))
        ELSE IF Truthy(ref_start) /\ ~Truthy(ref_end) THEN
            IF is_date_col
            THEN IF ~Parses(ref_start) THEN Raised(t)
                 ELSE Returned(FillEach(t, group, col,
                                        [j \in 1..n |-> FromStartDate(ref_start, j - 1)]))
            ELSE Returned(FillSame(t, group, col, ref_start))
        ELSE IF Truthy(ref_start) /\ Truthy(ref_end) THEN
            IF ref_start = ref_end THEN Returned(FillSame(t, group, col, ref_start))
            ELSE IF is_date_col
            THEN IF ~Parses(ref_start) \/ ~Parses(ref_end) THEN Raised(t)
                 ELSE Returned(FillEach(t, group, col,
                          [j \in 1..n |-> Interpolated(ref_start, ref_end, n, j - 1)]))
            ELSE Returned(t)
        ELSE Returned(t)

(***************************************************************************)
(* on_autofill: every group, and for each group every column in header     *)
(* order; an exception ends the handler where it is raised.                *)
(***************************************************************************)
\* selected_indices: tree.selection() lists the selected items in tree order
RECURSIVE SelectedIndices(_, _)
SelectedIndices(sel, from) ==
    IF sel = {} THEN <<>>
    ELSE IF from \in sel THEN <<from>> \o SelectedIndices(sel \ {from}, from + 1)
    ELSE SelectedIndices(sel, from + 1)

RECURSIVE AutofillFrom(_, _, _, _, _)
\* the two nested loops, from group g (1-based) and column col (0-based)
AutofillFrom(t, gs, g, col, type) ==
    IF g > Len(gs) THEN Returned(t)
    ELSE IF col >= HeaderLen(type) THEN AutofillFrom(t, gs, g + 1, 0, type)
    ELSE LET r == autofill_group(t, gs[g], col, type)
         IN  IF r.raised THEN r
             ELSE AutofillFrom(r.tree, gs, g, col + 1, type)

on_autofill(t, sel, type) ==
    AutofillFrom(t, group_continuous_indices(SelectedIndices(sel, 0)), 1, 0, type)

(***************************************************************************)
(* Python values of the export path.  A float is an exact fraction in      *)
(* lowest terms; an exception that leaves a function is a "raise" record.  *)
(***************************************************************************)
RECURSIVE GCD(_, _)
GCD(a, b) == IF b = 0 THEN a ELSE GCD(b, a % b)

Float(num, den) ==
    LET g == GCD(num, den)
    IN  [kind |-> "float", num |-> num \div g, den |-> den \div g]

Raise(exc) == [kind |-> "raise", exc |-> exc]

Digits == {"0", "1", "2", "3", "4", "5", "6", "7", "8", "9"}

DigitValue(c) ==
    CASE c = "0" -> 0 [] c = "1" -> 1 [] c = "2" -> 2 [] c = "3" -> 3
      [] c = "4" -> 4 [] c = "5" -> 5 [] c = "6" -> 6 [] c = "7" -> 7
      [] c = "8" -> 8 [] c = "9" -> 9

\* str.isdecimal()
isdecimal(s) == s # <<>> /\ \A i \in 1..Len(s) : s[i] \in Digits

\* c in s
Contains(s, c) == \E i \in 1..Len(s) : s[i] = c

\* s.split(c)[-1]: what follows the last c
AfterLast(s, c) ==
    LET at == CHOOSE i \in 1..Len(s) : s[i] = c /\ \A j \in (i + 1)..Len(s) : s[j] # c
    IN  SubSeq(s, at + 1, Len(s))

\* len(s.split(c)) - 1
Count(s, c) == Cardinality({ i \in 1..Len(s) : s[i] = c })

RECURSIVE Repeat(_, _)
\* s * n for a str s
Repeat(s, n) == IF n = 0 THEN <<>> ELSE s \o Repeat(s, n - 1)

RECURSIVE DecimalValue(_)
DecimalValue(s) ==
    IF s = <<>> THEN 0 ELSE 10 * DecimalValue(SubSeq(s, 1, Len(s) - 1)) + DigitValue(Last(s))

RECURSIVE Pow10(_)
Pow10(n) == IF n = 0 THEN 1 ELSE 10 * Pow10(n - 1)

\* float(s) for the texts of the model: digits with at most one point.
\* Signs, exponents, blanks, "inf" and "nan", which float() also reads, are
\* kept out of the inputs.
float(s) ==
    LET digits == SelectSeq(s, LAMBDA c : c \in Digits)
        points == Count(s, ".")
    IN  IF digits = <<>> \/ points > 1 \/ Len(digits) + points # Len(s)
        THEN Raise("ValueError")
        ELSE IF points = 0 THEN Float(DecimalValue(s), 1)
        ELSE Float(DecimalValue(digits), Pow10(Len(AfterLast(s, "."))))

\* 1 / x for a float x
Reciprocal(x) ==
    IF x.kind = "raise" THEN x
    ELSE IF x.num = 0 THEN Raise("ZeroDivisionError")
    ELSE Float(x.den, x.num)

\* minute, second = ss.split(c); return minute * 60 + second, on two strs
MinuteSecond(s, c) ==
    IF Count(s, c) # 1 THEN Raise("ValueError")
    ELSE LET at == CHOOSE i \in 1..Len(s) : s[i] = c
         IN  Txt(Repeat(SubSeq(s, 1, at - 1), 60) \o SubSeq(s, at + 1, Len(s)))

\* the text without a trailing 's' or '"'
StripUnit(s) ==
    IF s # <<>> /\ Last(s) \in {"s", "\""} THEN SubSeq(s, 1, Len(s) - 1) ELSE s

ss_to_float(text) ==
    IF text = <<"-">> THEN Empty
    ELSE LET ss == StripUnit(text)
         IN  IF Contains(ss, "/") THEN Reciprocal(float(AfterLast(ss, "/")))
             ELSE IF Contains(ss, "'") THEN MinuteSecond(ss, "'")
             ELSE IF Contains(ss, "m") THEN MinuteSecond(ss, "m")
             ELSE IF isdecimal(ss) THEN float(ss)
             ELSE None

\* bool(v) is False: None, '', 0.0
Falsy(v) == v = None \/ v = Empty \/ (v.kind = "float" /\ v.num = 0)

(***************************************************************************)
(* The batch path: get_images, get_exif_data, check_match, main.           *)
(* A file is [id, num, jpg]: id ranks its path among the paths of the      *)
(* pool (the order images.sort() uses), num is int() of what follows the   *)
(* last '-' of the stem, NotANumber when int() raises, jpg tells the       *)
(* suffix ".jpg".                                                          *)
(***************************************************************************)
NotANumber == -1
CSV_SHOT == 0
CSV_EXP_TIME == 1
CSV_FOCAL_LENGTH == 3
CSV_LENS_MODEL == 5
CSV_ISO == 7
CSV_LOCATION == 10
CSV_LATITUDE == 11
CSV_LONGITUDE == 12

\* the sort key of an image: int(x.stem.split("-")[-1]), or the path itself
SortKey(f, byNumber) == IF byNumber THEN f.num ELSE f.id

RECURSIVE InsertBy(_, _, _)
\* insertion after the elements whose key is not larger: a stable sort
InsertBy(x, s, byNumber) ==
    IF s = <<>> THEN <<x>>
    ELSE IF SortKey(x, byNumber) < SortKey(Head(s), byNumber) THEN <<x>> \o s
    ELSE <<Head(s)>> \o InsertBy(x, Tail(s), byNumber)

RECURSIVE SortBy(_, _)
SortBy(s, byNumber) ==
    IF s = <<>> THEN <<>>
    ELSE InsertBy(Last(s), SortBy(SubSeq(s, 1, Len(s) - 1), byNumber), byNumber)

\* the order of the images: by number, or by path when a number is missing
SortImages(jpgs) ==
    SortBy(jpgs, \A i \in 1..Len(jpgs) : jpgs[i].num # NotANumber)

get_images(dir) == SortImages(SelectSeq(dir, LAMBDA f : f.jpg))

\* the header is skipped by the reader; an empty row is dropped
get_exif_data(rows) == SelectSeq(rows, LAMBDA row : row # <<>>)

\* a slip in the check: the counts are not compared
check_match_Always(imgs, data) == TRUE

\* if len(images) != len(exif_data): return False
check_match(imgs, data) == Len(imgs) = Len(data)

\* strftime("%Y:%m:%d %H:%M:%S") of a parsed date
ExifDate(t) ==
    LET d == strftime(t)
    IN  [kind |-> "exifdate", year |-> d.year,
         month |-> (CASE d.mon = "Nov" -> 11 [] d.mon = "Dec" -> 12 [] d.mon = "Jan" -> 1),
         day |-> d.day, hh |-> d.hh, mm |-> d.mm, ss |-> 0]

\* try: ss = ss_to_float(ss)  except ValueError: ss = ''
ExposureOf(cell) ==
    LET r == IF cell.kind = "text" THEN ss_to_float(cell.s) ELSE None
    IN  IF r.kind = "raise" /\ r.exc = "ValueError" THEN Empty ELSE r

\* try: strip "f:", aperture = float(aperture)  except ValueError: aperture = ''
ApertureOf(cell) ==
    LET a == IF cell.kind = "text" THEN cell.s ELSE <<"?">>
        stripped == IF Len(a) >= 2 /\ SubSeq(a, 1, 2) = <<"f", ":">>
                    THEN SubSeq(a, 3, Len(a)) ELSE a
        r == float(stripped)
    IN  IF r.kind = "raise" THEN Empty ELSE r

\* date = strptime(date, ...).strftime(...), outside any try
DateOf(cell) == IF Parses(cell) THEN ExifDate(strptime(cell)) ELSE Raise("ValueError")

\* -Make/-Model/-LensMake of args.camera
CameraInfo(cam) == IF cam = "canonet" THEN "Canon" ELSE "Nikon"

\* the body of the loop for one image and one row: the command handed to
\* os.system, or the exception that leaves main
ComposeRow(image, row, cam) ==
    IF Len(row) <= CSV_LONGITUDE THEN Raise("IndexError")
    ELSE LET ss == ExposureOf(row[CSV_EXP_TIME + 1])
             aperture == ApertureOf(row[CSV_APERTURE + 1])
             date == DateOf(row[CSV_DATE + 1])
         IN  IF ss.kind = "raise" THEN ss
             ELSE IF date.kind = "raise" THEN date
             ELSE [kind |-> "exiftool",
                   AllDates |-> date,
                   gps |-> IF row[CSV_LONGITUDE + 1] # Empty /\ row[CSV_LATITUDE + 1] # Empty
                           THEN <<row[CSV_LONGITUDE + 1], row[CSV_LATITUDE + 1]>>
                           ELSE <<>>,
                   ImageDescription |-> row[CSV_LOCATION + 1],
                   ExposureTime |-> IF Falsy(ss) THEN None ELSE ss,
                   FNumber |-> IF Falsy(aperture) THEN None ELSE aperture,
                   FocalLength |-> row[CSV_FOCAL_LENGTH + 1],
                   Make |-> CameraInfo(cam),
                   LensModel |-> row[CSV_LENS_MODEL + 1],
                   ISO |-> row[CSV_ISO + 1],
                   image |-> image]

(***************************************************************************)
(* Inputs: the texts and rows the table is loaded with.                    *)
(***************************************************************************)
F8      == Txt(<<"f", ":", "8">>)
F11     == Txt(<<"f", ":", "1", "1">>)
Park    == Txt(<<"P", "a", "r", "k">>)
NotADate == Txt(<<"n", "/", "a">>)
\* "Dec 1, 2024 at 10:00" and "Dec 01, 2024 at 10:04"
Dec1_1000  == DateText("Dec", 1, FALSE, 2024, 10, 0)
Dec01_1004 == DateText("Dec", 1, TRUE, 2024, 10, 4)

\* a row of the schema with an aperture, a date and a location (the column
\* after the date in both schemas), '' elsewhere
MakeRow(type, aperture, date, location) ==
    [c \in 1..HeaderLen(type) |->
        IF c = CSV_APERTURE + 1 THEN aperture
        ELSE IF c = DateCol(type) + 1 THEN date
        ELSE IF c = DateCol(type) + 2 THEN location
        ELSE Empty]

RowChoices(type) ==
    { MakeRow(type, Empty, Empty, Empty),
      MakeRow(type, F8, Dec1_1000, Empty),
      MakeRow(type, F8, Dec01_1004, Park),
      MakeRow(type, F11, NotADate, Empty) }

Tables(type) == UNION { [1..n -> RowChoices(type)] : n \in 1..MaxRows }

GroupIdle == indices = <<>> /\ arg = <<>> /\ groups = <<>> /\ called = FALSE
GuiIdle ==
    /\ csv_data_type = "CSV" /\ tree = <<>> /\ selection = {} /\ pre = <<>>
    /\ op = "none" /\ raised = FALSE /\ fills = 0 /\ selects = 0
BatchIdle ==
    /\ toolOk = FALSE /\ directory = <<>> /\ csv_rows = <<>> /\ images = <<>>
    /\ exif_data = <<>> /\ camera = "canonet" /\ bpc = "idle" /\ k = 0
    /\ invocations = <<>>
ShutterIdle == ss_text = <<>> /\ seconds = [kind |-> "None"] /\ converted = FALSE
TableIdle ==
    /\ photos = 0 /\ csv_file = <<>> /\ loaded = "no" /\ steps = 0
    /\ processes = <<>> /\ all_commands = <<>>

(***************************************************************************)
(* SpecGroup: group_continuous_indices on every list of distinct           *)
(* positions.                                                              *)
(***************************************************************************)
DistinctLists ==
    UNION { { s \in [1..n -> 0..(MaxPos - 1)] :
                \A i, j \in 1..n : i # j => s[i] # s[j] } : n \in 0..MaxPos }

InitGroup ==
    /\ indices \in DistinctLists
    /\ arg = indices
    /\ groups = <<>>
    /\ called = FALSE
    /\ GuiIdle /\ BatchIdle /\ ShutterIdle /\ TableIdle

CallGroup ==
    /\ ~called
    /\ groups' = group_continuous_indices(indices)
    /\ indices' = IndicesAfterCall(indices)
    /\ called' = TRUE
    /\ UNCHANGED <<arg, guiVars, batchVars, shutterVars, tableVars>>

NextGroup == CallGroup

SpecGroup == InitGroup /\ [][NextGroup]_vars

(***************************************************************************)
(* Spec: the table after a load, row selection and on_autofill.            *)
(***************************************************************************)
Init ==
    /\ csv_data_type \in {"CSV_OLD", "CSV"}
    /\ tree \in Tables(csv_data_type)
    /\ selection = {0}
    /\ pre = tree
    /\ op = "load"
    /\ raised = FALSE
    /\ fills = 0
    /\ selects = 0
    /\ GroupIdle /\ BatchIdle /\ ShutterIdle /\ TableIdle

\* the user changes the selection of rows
SelectRows ==
    /\ selects < MaxSelects
    /\ selects' = selects + 1
    /\ \E sel \in SUBSET (0..(Len(tree) - 1)) :
          /\ sel # selection
          /\ selection' = sel
    /\ pre' = tree
    /\ op' = "select"
    /\ raised' = FALSE
    /\ UNCHANGED <<csv_data_type, tree, fills, groupVars, batchVars, shutterVars,
                   tableVars>>

OnAutofill ==
    /\ fills < MaxFills
    /\ LET r == on_autofill(tree, selection, csv_data_type)
       IN  /\ tree' = r.tree
           /\ raised' = r.raised
    /\ pre' = tree
    /\ op' = "autofill"
    /\ fills' = fills + 1
    /\ UNCHANGED <<csv_data_type, selection, selects, groupVars, batchVars,
                   shutterVars, tableVars>>

Next == SelectRows \/ OnAutofill

Spec == Init /\ [][Next]_vars

(***************************************************************************)
(* SpecBatch: main() on a directory and a csv file.                        *)
(***************************************************************************)
\* roll-2.jpg, roll-10.jpg, roll-x.jpg and roll-3.png; "roll-10" sorts
\* before "roll-2" as a path
FilePool ==
    { [id |-> 2, num |-> 2, jpg |-> TRUE],
      [id |-> 1, num |-> 10, jpg |-> TRUE],
      [id |-> 4, num |-> NotANumber, jpg |-> TRUE],
      [id |-> 3, num |-> 3, jpg |-> FALSE] }

Directories ==
    UNION { { d \in [1..n -> FilePool] : \A i, j \in 1..n : i # j => d[i] # d[j] }
            : n \in 0..MaxFiles }

\* a row of the extended schema
BatchRow(shot, ss, aperture, date, location) ==
    [c \in 1..CSV_LEN |->
        IF c = CSV_SHOT + 1 THEN Txt(shot)
        ELSE IF c = CSV_EXP_TIME + 1 THEN Txt(ss)
        ELSE IF c = CSV_APERTURE + 1 THEN aperture
        ELSE IF c = CSV_DATE + 1 THEN date
        ELSE IF c = CSV_LOCATION + 1 THEN location
        ELSE Empty]

\* two complete rows, a row whose shutter speed and aperture do not parse, a
\* row without a date, a row of the 8-column schema and an empty line
CsvRowPool ==
    { BatchRow(<<"1">>, <<"1", "/", "1", "2", "5">>, F8, Dec1_1000, Park),
      BatchRow(<<"2">>, <<"2", "\"">>, F11, Dec01_1004, Empty),
      BatchRow(<<"3">>, <<"1", "/", "x">>, Txt(<<"f", "?">>), Dec1_1000, Park),
      BatchRow(<<"4">>, <<"-">>, F8, Empty, Park),
      MakeRow("CSV_OLD", F8, Dec1_1000, Park),
      <<>> }

CsvFiles == UNION { [1..n -> CsvRowPool] : n \in 0..MaxCsv }

InitBatch ==
    /\ toolOk \in BOOLEAN
    /\ directory \in Directories
    /\ csv_rows \in CsvFiles
    /\ camera \in {"canonet", "fm10"}
    /\ images = <<>>
    /\ exif_data = <<>>
    /\ bpc = "check_exiftool"
    /\ k = 0
    /\ invocations = <<>>
    /\ GroupIdle /\ GuiIdle /\ ShutterIdle /\ TableIdle

\* if not check_exiftool(): print(...); return
MainCheckTool ==
    /\ bpc = "check_exiftool"
    /\ bpc' = IF toolOk THEN "get_images" ELSE "aborted"
    /\ UNCHANGED <<toolOk, directory, csv_rows, images, exif_data, camera, k,
                   invocations, groupVars, guiVars, shutterVars,
                   tableVars>>

MainGetImages ==
    /\ bpc = "get_images"
    /\ images' = get_images(directory)
    /\ bpc' = "get_exif_data"
    /\ UNCHANGED <<toolOk, directory, csv_rows, exif_data, camera, k, invocations,
                   groupVars, guiVars, shutterVars,
                   tableVars>>

MainGetExifData ==
    /\ bpc = "get_exif_data"
    /\ exif_data' = get_exif_data(csv_rows)
    /\ bpc' = "check_match"
    /\ UNCHANGED <<toolOk, directory, csv_rows, images, camera, k, invocations,
                   groupVars, guiVars, shutterVars,
                   tableVars>>

\* if not check_match(images, exif_data): return; an empty zip ends main
MainCheckMatch ==
    /\ bpc = "check_match"
    /\ bpc' = IF ~check_match(images, exif_data) THEN "aborted"
              ELSE IF Len(images) = 0 \/ Len(exif_data) = 0 THEN "done"
              ELSE "loop"
    /\ UNCHANGED <<toolOk, directory, csv_rows, images, exif_data, camera, k,
                   invocations, groupVars, guiVars, shutterVars,
                   tableVars>>

\* one turn of: for image, row in zip(images, exif_data)
MainRow ==
    /\ bpc = "loop"
    /\ LET cmd == ComposeRow(images[k + 1], exif_data[k + 1], camera)
       IN  IF cmd.kind = "raise"
           THEN /\ bpc' = "raised"
                /\ UNCHANGED <<k, invocations>>
           ELSE /\ invocations' = Append(invocations, cmd)
                /\ k' = k + 1
                /\ bpc' = IF k + 1 < Len(images) /\ k + 1 < Len(exif_data)
                          THEN "loop" ELSE "done"
    /\ UNCHANGED <<toolOk, directory, csv_rows, images, exif_data, camera,
                   groupVars, guiVars, shutterVars,
                   tableVars>>

NextBatch ==
    MainCheckTool \/ MainGetImages \/ MainGetExifData \/ MainCheckMatch \/ MainRow

SpecBatch == InitBatch /\ [][NextBatch]_vars

(***************************************************************************)
(* SpecShutter: ss_to_float on every short text over the characters the    *)
(* function looks at.                                                      *)
(***************************************************************************)
MaxText == 4    \* characters of a shutter-speed text

ShutterChars == {"0", "1", "2", "/", "'", "m", "\"", "s", "-", ".", "x"}

ShutterTexts == UNION { [1..n -> ShutterChars] : n \in 0..MaxText }

InitShutter ==
    /\ ss_text \in ShutterTexts
    /\ seconds = None
    /\ converted = FALSE
    /\ GroupIdle /\ GuiIdle /\ BatchIdle /\ TableIdle

CallShutter ==
    /\ ~converted
    /\ seconds' = ss_to_float(ss_text)
    /\ converted' = TRUE
    /\ UNCHANGED <<ss_text, groupVars, guiVars, batchVars, tableVars>>

NextShutter == CallShutter

SpecShutter == InitShutter /\ [][NextShutter]_vars

(***************************************************************************)
(* The handlers of the table: combined_load, on_shift_down, on_remove_row, *)
(* on_clear, update_cell, on_save_csv and on_export.  A csv file is the    *)
(* sequence of the rows csv.reader yields, the header first; an empty line *)
(* of the file is the row <<>>.                                            *)
(***************************************************************************)
Min(a, b) == IF a <= b THEN a ELSE b

\* cell.strip(): the text without its leading and trailing blanks
strip(cell) ==
    IF cell.kind # "text" THEN cell
    ELSE LET inked == { i \in 1..Len(cell.s) : cell.s[i] # " " }
         IN  IF inked = {} THEN Empty
             ELSE Txt(SubSeq(cell.s,
                             CHOOSE i \in inked : \A j \in inked : i <= j,
                             CHOOSE i \in inked : \A j \in inked : i >= j))

\* a slip in the filter: every data row is kept
NonBlankRows_KeepsAll(rows) ==
    SelectSeq(rows, LAMBDA row : TRUE)

\* [row for row in data[1:] if any(cell.strip() for cell in row)]
NonBlankRows(rows) ==
    SelectSeq(rows, LAMBDA row : \E c \in 1..Len(row) : Truthy(strip(row[c])))

\* what combined_load leaves: how it ended, the schema, the rows of the new
\* tree and its selection.  "error" is the except branch (messagebox), with
\* a tree only when the exception came after its creation.
LoadResult(status, type, hasTree, rows) ==
    [status |-> status, type |-> type, hasTree |-> hasTree, rows |-> rows,
     selection |-> IF rows = <<>> THEN {} ELSE {0}]

combined_load(file, n_photos) ==
    IF file = <<>> THEN LoadResult("error", "none", FALSE, <<>>)
    ELSE LET header == file[1]
             data   == NonBlankRows(Tail(file))
             type   == IF Len(header) = CSV_OLD_LEN THEN "CSV_OLD"
                       ELSE IF Len(header) = CSV_LEN THEN "CSV"
                       ELSE "none"
             rows   == [i \in 1..Max(Len(data), n_photos) |->
                           IF i <= Len(data) THEN data[i]
                           ELSE [c \in 1..Len(header) |-> Empty]]
         IN  IF type = "none" THEN LoadResult("unrecognized", type, FALSE, <<>>)
             ELSE IF rows = <<>> THEN LoadResult("error", type, TRUE, rows)
             ELSE LoadResult("ok", type, TRUE, rows)

(***************************************************************************)
(* The row handlers.  Each gives the rows and the selection it leaves and  *)
(* whether an exception ended it.                                          *)
(***************************************************************************)
Handled(t, sel, exc) == [tree |-> t, selection |-> sel, raised |-> exc]

\* self.tree.index(self.tree.selection()[0]), for a selection with a row
FirstSelected(sel) == CHOOSE i \in sel : \A j \in sel : i <= j

\* last_row_is_empty(), for an existing tree
last_row_is_empty(t) ==
    IF t = <<>> THEN FALSE
    ELSE \A c \in 1..Len(Last(t)) : Last(t)[c] = Empty \/ Last(t)[c] = None

\* a slip in on_shift_down: the row is always appended
Appended_Always(t, type) == Append(t, empty_row(type))

\* the first statement of on_shift_down: an empty row is appended unless
\* the last row is empty
Appended(t, type) ==
    IF ~last_row_is_empty(t) THEN Append(t, empty_row(type)) ELSE t

\* a slip in the loop bound: the selected row is emptied without having
\* been copied down
on_shift_down_FromNext(t, sel, type) ==
    LET t1 == Appended(t, type)
    IN  IF sel = {} THEN Handled(t1, sel, TRUE)
        ELSE LET first_selected_index == FirstSelected(sel)
             IN  Handled([r \in 1..Len(t1) |->
                             IF r - 1 > first_selected_index + 1 THEN t1[r - 1]
                             ELSE IF r - 1 = first_selected_index THEN empty_row(type)
                             ELSE t1[r]],
                         sel, FALSE)

\* on_shift_down: selection()[0] raises IndexError on an empty selection,
\* after the row has been appended
on_shift_down(t, sel, type) ==
    LET t1 == Appended(t, type)
    IN  IF sel = {} THEN Handled(t1, sel, TRUE)
        ELSE LET first_selected_index == FirstSelected(sel)
             IN  Handled([r \in 1..Len(t1) |->
                             IF r - 1 > first_selected_index THEN t1[r - 1]
                             ELSE IF r - 1 = first_selected_index THEN empty_row(type)
                             ELSE t1[r]],
                         sel, FALSE)

\* a slip in on_remove_row: the last row is deleted whatever the images
on_remove_row_AlwaysDeletes(t, sel, type, n_photos) ==
    IF sel = {} THEN Handled(t, sel, TRUE)
    ELSE LET first_selected_index == FirstSelected(sel)
             num_children == Len(t)
         IN  Handled([r \in 1..(num_children - 1) |->
                         IF r - 1 >= first_selected_index THEN t[r + 1] ELSE t[r]],
                     sel \ {num_children - 1}, FALSE)

\* on_remove_row: the rows from the first selected one move up; the last
\* row is deleted (and leaves the selection) when the tree has more rows
\* than images, and is emptied otherwise
on_remove_row(t, sel, type, n_photos) ==
    IF sel = {} THEN Handled(t, sel, TRUE)
    ELSE LET first_selected_index == FirstSelected(sel)
             num_children == Len(t)
         IN  IF num_children > n_photos
             THEN Handled([r \in 1..(num_children - 1) |->
                              IF r - 1 >= first_selected_index THEN t[r + 1] ELSE t[r]],
                          sel \ {num_children - 1}, FALSE)
             ELSE Handled([r \in 1..num_children |->
                              IF r - 1 < first_selected_index THEN t[r]
                              ELSE IF r = num_children THEN empty_row(type)
                              ELSE t[r + 1]],
                          sel, FALSE)

\* on_clear: every selected row becomes an empty row
on_clear(t, sel, type) ==
    Handled([r \in 1..Len(t) |-> IF r - 1 \in sel THEN empty_row(type) ELSE t[r]],
            sel, FALSE)

\* update_cell(item, column_index, from_return, prev_value) with new_value
\* in the entry: the cell is set when the value differs; Return selects the
\* row
update_cell(t, sel, i, col, new_value, from_return) ==
    Handled(IF new_value # Cell(t, i, col)
            THEN [t EXCEPT ![i + 1][col + 1] = new_value] ELSE t,
            IF from_return THEN {i} ELSE sel, FALSE)

(***************************************************************************)
(* on_save_csv.  self.tree.item(row_id)['values'] hands the cells through  *)
(* ttk's conversion, which turns a text that int() reads into that int;    *)
(* csv.writer then writes str() of it.  Of the texts int() reads, the      *)
(* inputs hold digit-only ones.                                            *)
(***************************************************************************)
RECURSIVE Numeral(_)
\* str(n) for an int n >= 0
Numeral(n) ==
    IF n < 10 THEN <<CHOOSE d \in Digits : DigitValue(d) = n>>
    ELSE Numeral(n \div 10) \o <<CHOOSE d \in Digits : DigitValue(d) = n % 10>>

\* what csv.writer writes for a cell of item(row_id)['values']
ItemValue(cell) ==
    IF cell.kind = "text" /\ isdecimal(cell.s) THEN Txt(Numeral(DecimalValue(cell.s)))
    ELSE IF cell = None THEN Empty
    ELSE cell

\* the rows of the file after on_save_csv: the header, then every row
on_save_csv(t, header) ==
    <<header>> \o [r \in 1..Len(t) |-> [c \in 1..Len(t[r]) |-> ItemValue(t[r][c])]]

(***************************************************************************)
(* on_export.  An external process is a record: the version probe of       *)
(* check_exiftool, or a command run by run_exiftool.                       *)
(***************************************************************************)
\* check_exiftool(): os.system("exiftool -ver") == 0
VersionProbe(ok) == [cmd |-> "exiftool -ver", ok |-> ok]

\* run_exiftool(command): os.system(command)
run_exiftool(command) == [cmd |-> "run_exiftool", command |-> command]

aperture_to_float(text) ==
    IF Contains(text, ":") THEN float(AfterLast(text, ":"))
    ELSE IF isdecimal(text) THEN float(text)
    ELSE None

\* try: aperture = aperture_to_float(aperture)  except ValueError: aperture = ''
GuiApertureOf(cell) ==
    LET r == IF cell.kind = "text" THEN aperture_to_float(cell.s) ELSE None
    IN  IF r.kind = "raise" /\ r.exc = "ValueError" THEN Empty ELSE r

\* the ISO of the roll after this row: the dialog's answer for the old
\* schema, the first ISO cell that is not empty for the new one
RollIso(roll_iso, row, type, answer) ==
    IF Truthy(roll_iso) THEN roll_iso
    ELSE IF type = "CSV_OLD" THEN Txt(<<answer>>)
    ELSE row[CSV_ISO + 1]

\* the body of the loop for one image and one row: the command appended to
\* all_commands, or the exception that leaves on_export
ExportCommand(row, type, image, roll_iso) ==
    LET old  == type = "CSV_OLD"
        ss   == ExposureOf(row[CSV_EXP_TIME + 1])
        aperture == GuiApertureOf(row[CSV_APERTURE + 1])
        date == DateOf(row[DateCol(type) + 1])
        longitude == row[(IF old THEN 6 ELSE CSV_LONGITUDE) + 1]
        latitude  == row[(IF old THEN 7 ELSE CSV_LATITUDE) + 1]
    IN  IF ss.kind = "raise" THEN ss
        ELSE IF date.kind = "raise" THEN date
        ELSE [kind |-> "exiftool",
              AllDates |-> date,
              gps |-> IF Truthy(longitude) /\ Truthy(latitude)
                      THEN <<longitude, latitude>> ELSE <<>>,
              ImageDescription |-> row[DateCol(type) + 2],
              ExposureTime |-> IF Falsy(ss) THEN None ELSE ss,
              FNumber |-> IF Falsy(aperture) THEN None ELSE aperture,
              FocalLength |-> row[CSV_FOCAL_LENGTH + 1],
              LensModel |-> IF old THEN None ELSE row[CSV_LENS_MODEL + 1],
              ISO |-> roll_iso,
              image |-> image]

RECURSIVE ExportLoop(_, _, _, _, _, _, _)
\* for img_file, item in zip(self.image_files, children), from pair i
ExportLoop(t, type, n_photos, i, roll_iso, commands, answer) ==
    IF i > Min(n_photos, Len(t)) THEN [all_commands |-> commands, raised |-> FALSE]
    ELSE LET iso == RollIso(roll_iso, t[i], type, answer)
             c   == ExportCommand(t[i], type, i, iso)
         IN  IF c.kind = "raise" THEN [all_commands |-> commands, raised |-> TRUE]
             ELSE ExportLoop(t, type, n_photos, i + 1, iso, Append(commands, c), answer)

\* the handler without its return: every command goes to the thread pool
on_export_Submits(t, type, n_photos, ok, answer) ==
    LET r == ExportLoop(t, type, n_photos, 1, None, <<>>, answer)
    IN  [started |-> <<VersionProbe(ok)>> \o
                     (IF r.raised THEN <<>>
                      ELSE [j \in 1..Len(r.all_commands) |->
                               run_exiftool(r.all_commands[j])]),
         all_commands |-> r.all_commands, raised |-> r.raised]

\* on_export: the probe, the loop, print(all_commands), return.  The
\* statements after the return, which hand the commands to run_exiftool,
\* are never run.
on_export(t, type, n_photos, ok, answer) ==
    LET r == ExportLoop(t, type, n_photos, 1, None, <<>>, answer)
    IN  [started |-> <<VersionProbe(ok)>>,
         all_commands |-> r.all_commands, raised |-> r.raised]

(***************************************************************************)
(* SpecTable: one combined_load of a csv file and a directory of images,   *)
(* then the handlers of the table.                                         *)
(***************************************************************************)
MaxFileRows == 2    \* data rows of the csv file that is loaded
MaxPhotos == 2      \* images of the directory that is loaded
MaxSteps == 4       \* handlers run in one session, the load included

Shot01 == Txt(<<"0", "1">>)
Blank  == Txt(<<" ">>)

\* the n-th column name of a header
ColumnName(n) ==
    Txt(<<"c">> \o (IF n >= 10 THEN <<"1">> ELSE <<>>)
               \o <<CHOOSE d \in Digits : DigitValue(d) = n % 10>>)

Header(n) == [c \in 1..n |-> ColumnName(c)]

\* the data rows a file is made of: an empty line, a row of '' cells, a
\* row whose only text is a blank, and two rows with data
FileRowChoices(type) ==
    { <<>>,
      MakeRow(type, Empty, Empty, Empty),
      [MakeRow(type, Empty, Empty, Empty) EXCEPT ![1] = Blank],
      [MakeRow(type, F8, Dec1_1000, Empty) EXCEPT ![1] = Shot01],
      MakeRow(type, F11, Dec01_1004, Park) }

\* the files: both schemas with up to MaxFileRows data rows, a header of an
\* unknown width, and the empty file
CsvFilesOf(type) ==
    UNION { { <<Header(HeaderLen(type))>> \o rows :
                rows \in [1..n -> FileRowChoices(type)] } : n \in 0..MaxFileRows }

GuiFiles == CsvFilesOf("CSV_OLD") \cup CsvFilesOf("CSV") \cup {<<Header(3)>>, <<>>}

HasTree == loaded = "ok" \/ (loaded = "error" /\ csv_file # <<>>)

InitTable ==
    /\ csv_file \in GuiFiles
    /\ photos \in 0..MaxPhotos
    /\ loaded = "no"
    /\ steps = 0
    /\ processes = <<>>
    /\ all_commands = <<>>
    /\ GroupIdle /\ GuiIdle /\ BatchIdle /\ ShutterIdle

\* the user picks the csv file and the directory of the session
CombinedLoad ==
    /\ loaded = "no"
    /\ steps < MaxSteps
    /\ steps' = steps + 1
    /\ LET r == combined_load(csv_file, photos)
       IN  /\ loaded' = r.status
           /\ csv_data_type' = IF r.type = "none" THEN csv_data_type ELSE r.type
           /\ tree' = r.rows
           /\ selection' = r.selection
    /\ pre' = tree
    /\ op' = "load"
    /\ raised' = FALSE
    /\ UNCHANGED <<photos, csv_file, processes, all_commands, fills, selects,
                   groupVars, batchVars, shutterVars>>

\* a handler that runs before a tree exists ends with an exception at its
\* first use of self.tree
NoTree(name) ==
    /\ ~HasTree
    /\ op' = name
    /\ raised' = TRUE
    /\ pre' = tree
    /\ UNCHANGED <<csv_data_type, tree, selection, photos, csv_file, loaded,
                   processes, all_commands>>

\* the Export button; answer is what the user gives to the ISO dialog of
\* the old schema.  check_exiftool() has started "exiftool -ver" (with the
\* result ok) before self.tree is looked at.
OnExport ==
    /\ steps < MaxSteps
    /\ steps' = steps + 1
    /\ \E ok \in BOOLEAN, answer \in {"yes", "no"} :
          IF HasTree
          THEN LET r == on_export(tree, csv_data_type, photos, ok, answer)
               IN  /\ processes' = processes \o r.started
                   /\ all_commands' = r.all_commands
                   /\ raised' = r.raised
                   /\ pre' = tree
                   /\ op' = "export"
                   /\ UNCHANGED <<csv_data_type, tree, selection, photos,
                                  csv_file, loaded>>
          ELSE /\ processes' = Append(processes, VersionProbe(ok))
               /\ op' = "export"
               /\ raised' = TRUE
               /\ pre' = tree
               /\ UNCHANGED <<csv_data_type, tree, selection, photos, csv_file,
                              loaded, all_commands>>
    /\ UNCHANGED <<fills, selects, groupVars, batchVars, shutterVars>>

\* what a row handler leaves in the table
Leaves(name, r) ==
    /\ tree' = r.tree
    /\ selection' = r.selection
    /\ raised' = r.raised
    /\ pre' = tree
    /\ op' = name
    /\ UNCHANGED <<csv_data_type, photos, csv_file, loaded, processes,
                   all_commands>>

Step ==
    /\ steps < MaxSteps
    /\ steps' = steps + 1
    /\ UNCHANGED <<fills, selects, groupVars, batchVars, shutterVars>>

\* the user clicks rows of the tree
TableSelect ==
    /\ Step
    /\ HasTree
    /\ \E sel \in SUBSET (0..(Len(tree) - 1)) :
          /\ sel # selection
          /\ Leaves("select", Handled(tree, sel, FALSE))

OnShiftDown ==
    /\ Step
    /\ IF HasTree THEN Leaves("shift_down", on_shift_down(tree, selection, csv_data_type))
       ELSE NoTree("shift_down")

OnRemoveRow ==
    /\ Step
    /\ IF HasTree
       THEN Leaves("remove_row", on_remove_row(tree, selection, csv_data_type, photos))
       ELSE NoTree("remove_row")

OnClear ==
    /\ Step
    /\ IF HasTree THEN Leaves("clear", on_clear(tree, selection, csv_data_type))
       ELSE NoTree("clear")

\* the columns and the texts of the edits
EditColumns(type) == {CSV_SHOT, DateCol(type) + 1}
EditValues == {Empty, Park}

\* a double click on a cell, a text typed, then Return or a click elsewhere
UpdateCell ==
    /\ Step
    /\ HasTree
    /\ \E i \in 0..(Len(tree) - 1), col \in EditColumns(csv_data_type),
          new_value \in EditValues, from_return \in BOOLEAN :
          Leaves("update_cell", update_cell(tree, selection, i, col, new_value, from_return))

TableAutofill ==
    /\ Step
    /\ IF HasTree
       THEN LET r == on_autofill(tree, selection, csv_data_type)
            IN  Leaves("autofill", Handled(r.tree, selection, r.raised))
       ELSE NoTree("autofill")

\* on_save_csv opens the file for writing, writes the header and then the
\* rows: before any load csv_path is no StringVar and nothing is opened;
\* without a header (the load of an empty file) the file is left empty;
\* without a tree the header alone is written
OnSaveCsv ==
    /\ Step
    /\ csv_file' = IF loaded = "no" \/ csv_file = <<>> THEN csv_file
                   ELSE IF ~HasTree THEN <<csv_file[1]>>
                   ELSE on_save_csv(tree, csv_file[1])
    /\ raised' = ~HasTree
    /\ op' = "save_csv"
    /\ pre' = tree
    /\ UNCHANGED <<csv_data_type, tree, selection, photos, loaded, processes,
                   all_commands>>

NextTable ==
    \/ CombinedLoad
    \/ TableSelect
    \/ OnShiftDown
    \/ OnRemoveRow
    \/ OnClear
    \/ UpdateCell
    \/ TableAutofill
    \/ OnSaveCsv
    \/ OnExport

SpecTable == InitTable /\ [][NextTable]_vars

(***************************************************************************)
(* Properties of group_continuous_indices (SpecGroup).                     *)
(***************************************************************************)
RECURSIVE Concat(_)
Concat(gs) == IF gs = <<>> THEN <<>> ELSE Head(gs) \o Concat(Tail(gs))

\* s is sorted(S) for a list S of distinct integers
IsSortedOf(s, S) ==
    /\ Len(s) = Len(S)
    /\ Range(s) = Range(S)
    /\ \A i \in 1..(Len(s) - 1) : s[i] < s[i + 1]

\* C1: for a list S of distinct positions the groups returned are the maximal
\* runs of consecutive integers of sorted(S), in increasing order: their
\* concatenation is sorted(S), every group is non-empty and steps by one, the
\* first element of a group is never the last of the previous group plus one,
\* and the empty list gives no group.
C1_MaximalRuns ==
    called =>
        /\ IsSortedOf(Concat(groups), arg)
        /\ \A g \in 1..Len(groups) :
              /\ groups[g] # <<>>
              /\ \A i \in 1..(Len(groups[g]) - 1) :
                    groups[g][i + 1] = groups[g][i] + 1
        /\ \A g \in 1..(Len(groups) - 1) :
              groups[g + 1][1] # Last(groups[g]) + 1
        /\ (arg = <<>> => groups = <<>>)

\* an unsorted list with two runs has been grouped
C1_Witness ==
    called /\ arg = <<4, 0, 3, 1>> /\ groups = << <<0, 1>>, <<3, 4>> >>

(***************************************************************************)
(* Properties of on_autofill (Spec).  They are stated on the table before  *)
(* the handler (pre) and after it (tree), for the maximal runs of the      *)
(* selection, without the model's grouping.                                *)
(***************************************************************************)
RowCount == Len(pre)
Cols == 0..(HeaderLen(csv_data_type) - 1)
DATE == DateCol(csv_data_type)

\* lo..hi is a contiguous group of the selection
IsGroup(lo, hi) ==
    /\ lo <= hi
    /\ \A i \in lo..hi : i \in selection
    /\ (lo - 1) \notin selection
    /\ (hi + 1) \notin selection

GroupBounds == { b \in (0..(RowCount - 1)) \X (0..(RowCount - 1)) : IsGroup(b[1], b[2]) }

\* the boundary rows exist
HasStartRow(lo) == lo >= 1
HasEndRow(hi) == hi + 1 < RowCount

\* the boundary reference of a column is available: the row exists and its
\* cell is not ''
StartAvailable(lo, col) == HasStartRow(lo) /\ Cell(pre, lo - 1, col) # Empty
EndAvailable(hi, col) == HasEndRow(hi) /\ Cell(pre, hi + 1, col) # Empty

\* on_autofill ran to its end
Filled == op = "autofill" /\ ~raised

\* nearest integer to a / b for b > 0, ties to the even one
NearestEven(a, b) ==
    LET f == a \div b
        twice == 2 * (a - f * b)
    IN  IF twice < b THEN f
        ELSE IF twice > b THEN f + 1
        ELSE IF f % 2 = 0 THEN f ELSE f + 1

\* C2 as amended: in the date column, a group of n rows between two
\* different dates gets in row i the text of start_ref + (i+1) * step with the
\* seconds dropped, step being (end_ref - start_ref) / (n + 1) to the nearest
\* microsecond; the values do not leave the span of the two references and
\* run in its direction.
C2_InterpolatedTruncated ==
    Filled =>
        \A b \in GroupBounds :
            LET lo == b[1]
                hi == b[2]
                n  == hi - lo + 1
            IN  (/\ StartAvailable(lo, DATE) /\ EndAvailable(hi, DATE)
                 /\ Parses(Cell(pre, lo - 1, DATE)) /\ Parses(Cell(pre, hi + 1, DATE))
                 /\ Cell(pre, lo - 1, DATE) # Cell(pre, hi + 1, DATE))
                =>
                LET start == strptime(Cell(pre, lo - 1, DATE))
                    end   == strptime(Cell(pre, hi + 1, DATE))
                    step  == NearestEven((end - start) * MicrosPerMinute, n + 1)
                    at(i) == start + (((i + 1) * step) \div MicrosPerMinute)
                IN  /\ \A i \in 0..(n - 1) :
                          /\ Cell(tree, lo + i, DATE) = strftime(at(i))
                          /\ IF start <= end
                             THEN start <= at(i) /\ at(i) <= end
                             ELSE end <= at(i) /\ at(i) <= start
                    /\ \A i \in 0..(n - 2) :
                          IF start <= end THEN at(i) <= at(i + 1)
                          ELSE at(i + 1) <= at(i)

\* C2 as stated: row i holds exactly start_ref + (i+1) * (end_ref - start_ref) / (n+1)
C2_InterpolatedExact ==
    Filled =>
        \A b \in GroupBounds :
            LET lo == b[1]
                hi == b[2]
                n  == hi - lo + 1
            IN  (/\ StartAvailable(lo, DATE) /\ EndAvailable(hi, DATE)
                 /\ Parses(Cell(pre, lo - 1, DATE)) /\ Parses(Cell(pre, hi + 1, DATE))
                 /\ Cell(pre, lo - 1, DATE) # Cell(pre, hi + 1, DATE))
                =>
                LET start == strptime(Cell(pre, lo - 1, DATE))
                    end   == strptime(Cell(pre, hi + 1, DATE))
                IN  \A i \in 0..(n - 1) :
                        /\ Parses(Cell(tree, lo + i, DATE))
                        /\ (strptime(Cell(tree, lo + i, DATE)) - start) * (n + 1)
                               = (i + 1) * (end - start)

\* the example of the claim: 10:00, three selected rows, 10:04
C2_Witness ==
    /\ Filled /\ RowCount = 5 /\ selection = {1, 2, 3}
    /\ Cell(pre, 0, DATE) = Dec1_1000 /\ Cell(pre, 4, DATE) = Dec01_1004
    /\ Cell(tree, 1, DATE) = DateText("Dec", 1, TRUE, 2024, 10, 1)
    /\ Cell(tree, 2, DATE) = DateText("Dec", 1, TRUE, 2024, 10, 2)
    /\ Cell(tree, 3, DATE) = DateText("Dec", 1, TRUE, 2024, 10, 3)

\* C3: in the date column, when exactly one boundary reference is available,
\* the row at distance d from that boundary holds end_ref - d minutes (only
\* end_ref) or start_ref + d minutes (only start_ref).
C3_OneSidedDate ==
    Filled =>
        \A b \in GroupBounds :
            LET lo == b[1]
                hi == b[2]
                n  == hi - lo + 1
            IN  /\ (/\ ~StartAvailable(lo, DATE) /\ EndAvailable(hi, DATE)
                    /\ Parses(Cell(pre, hi + 1, DATE)))
                   => \A d \in 1..n :
                         Cell(tree, hi + 1 - d, DATE)
                             = strftime(strptime(Cell(pre, hi + 1, DATE)) - d)
                /\ (/\ StartAvailable(lo, DATE) /\ ~EndAvailable(hi, DATE)
                    /\ Parses(Cell(pre, lo - 1, DATE)))
                   => \A d \in 1..n :
                         Cell(tree, lo - 1 + d, DATE)
                             = strftime(strptime(Cell(pre, lo - 1, DATE)) + d)

\* C4: when both boundary references of a column are available and equal,
\* every row of the group holds the shared value in that column.
C4_EqualBoundaries ==
    Filled =>
        \A b \in GroupBounds : \A col \in Cols :
            LET lo == b[1]
                hi == b[2]
            IN  (/\ StartAvailable(lo, col) /\ EndAvailable(hi, col)
                 /\ Cell(pre, lo - 1, col) = Cell(pre, hi + 1, col))
                => \A i \in lo..hi : Cell(tree, i, col) = Cell(pre, lo - 1, col)

\* two rows between equal boundaries were overwritten, date column included
C4_Witness ==
    /\ Filled /\ RowCount = 4 /\ selection = {1, 2}
    /\ Cell(pre, 0, DATE) = Dec1_1000 /\ Cell(pre, 3, DATE) = Dec1_1000
    /\ Cell(pre, 1, DATE) = NotADate /\ Cell(pre, 2, CSV_APERTURE) = F11
    /\ \A i \in {1, 2} : /\ Cell(tree, i, DATE) = Dec1_1000
                         /\ Cell(tree, i, CSV_APERTURE) = F8

\* what the one-sided policy makes of a reference, for the row at distance d
OneSided(ref, col, d, forward) ==
    IF col = DATE
    THEN strftime(strptime(ref) + (IF forward THEN d ELSE 0 - d))
    ELSE ref

\* C5: a group at a table edge is filled, in every column, from the one
\* boundary reference that exists, whatever its own rows held.
C5_EdgeGroupUsesTheOneBoundary ==
    Filled =>
        \A b \in GroupBounds : \A col \in Cols :
            LET lo == b[1]
                hi == b[2]
                n  == hi - lo + 1
            IN  /\ (/\ ~HasStartRow(lo) /\ EndAvailable(hi, col)
                    /\ (col = DATE => Parses(Cell(pre, hi + 1, col))))
                   => \A d \in 1..n :
                         Cell(tree, hi + 1 - d, col)
                             = OneSided(Cell(pre, hi + 1, col), col, d, FALSE)
                /\ (/\ ~HasEndRow(hi) /\ StartAvailable(lo, col)
                    /\ (col = DATE => Parses(Cell(pre, lo - 1, col))))
                   => \A d \in 1..n :
                         Cell(tree, lo - 1 + d, col)
                             = OneSided(Cell(pre, lo - 1, col), col, d, TRUE)

\* C6: with every row selected, on_autofill changes no cell.
C6_WholeTableUntouched ==
    (op = "autofill" /\ selection = 0..(RowCount - 1)) => tree = pre

\* C7: when on_autofill fails, no cell of the selected rows has changed.
C7_NoPartialFill ==
    (op = "autofill" /\ raised) => \A i \in selection : tree[i + 1] = pre[i + 1]

(***************************************************************************)
(* Properties of main (SpecBatch).                                         *)
(***************************************************************************)
\* the images of the directory and the data rows of the csv file, counted
\* on the inputs
ImageCount == Cardinality({ i \in 1..Len(directory) : directory[i].jpg })
CsvRowCount == Cardinality({ i \in 1..Len(csv_rows) : csv_rows[i] # <<>> })

MainEnded == bpc \in {"aborted", "done", "raised"}
ChecksPass == toolOk /\ ImageCount = CsvRowCount
FullRows == \A i \in 1..Len(csv_rows) : Len(csv_rows[i]) \in {0, CSV_LEN}

\* C8: when the tool check fails or the images and the csv rows differ in
\* number, no image is ever written, and main ends by aborting.
C8_NoWriteAfterFailedCheck ==
    ~ChecksPass => /\ invocations = <<>>
                   /\ bpc \notin {"loop", "done", "raised"}

\* three images against two rows: main has aborted without a write
C8_Witness ==
    /\ toolOk /\ ImageCount = 3 /\ CsvRowCount = 2
    /\ bpc = "aborted" /\ invocations = <<>>

\* C9: when both checks pass, main ends with one invocation per image, the
\* k-th for the k-th image in sorted order with the texts of the k-th row.
C9_OneInvocationPerImage ==
    (MainEnded /\ ChecksPass /\ FullRows) =>
        /\ Len(invocations) = ImageCount
        /\ \A i \in 1..Len(invocations) :
              /\ invocations[i].image = images[i]
              /\ invocations[i].ImageDescription = exif_data[i][CSV_LOCATION + 1]
              /\ invocations[i].ISO = exif_data[i][CSV_ISO + 1]
        /\ \A i \in 1..(Len(images) - 1) :
              IF \A j \in 1..Len(images) : images[j].num # NotANumber
              THEN images[i].num <= images[i + 1].num
              ELSE images[i].id <= images[i + 1].id

\* C10: composing the commands never raises: every row gets its command, a
\* date that does not parse giving no date in it.
C10_UnparseableFieldsDegrade ==
    (ChecksPass /\ FullRows) =>
        /\ bpc # "raised"
        /\ bpc = "done" =>
              /\ Len(invocations) = CsvRowCount
              /\ \A i \in 1..Len(invocations) :
                    ~Parses(exif_data[i][CSV_DATE + 1])
                        => invocations[i].AllDates = Empty

(***************************************************************************)
(* Properties of ss_to_float (SpecShutter).                                *)
(***************************************************************************)
\* the digits of a whole number, as the spec's N, K, M and S
IsNumber(s) == s # <<>> /\ \A i \in 1..Len(s) : s[i] \in Digits

\* the text without the unit sign that may close it
Unsigned(s, sign) ==
    IF s # <<>> /\ Last(s) = sign THEN SubSeq(s, 1, Len(s) - 1) ELSE s

\* 1/N
IsFraction(s) ==
    /\ Len(s) >= 3 /\ s[1] = "1" /\ s[2] = "/"
    /\ IsNumber(SubSeq(s, 3, Len(s)))
    /\ DecimalValue(SubSeq(s, 3, Len(s))) # 0

\* K"
IsQuotedSeconds(s) == Len(s) >= 2 /\ Last(s) = "\"" /\ IsNumber(Unsigned(s, "\""))

\* M'S" (sep is ') or MmS (sep is m): the position of the separator, 0 if
\* the text has not that form
SeparatorAt(s, sep) ==
    IF \E i \in 2..(Len(s) - 1) :
          /\ s[i] = sep
          /\ IsNumber(SubSeq(s, 1, i - 1)) /\ IsNumber(SubSeq(s, i + 1, Len(s)))
    THEN CHOOSE i \in 2..(Len(s) - 1) : s[i] = sep
    ELSE 0

IsMinuteSecond(s) ==
    \/ Last(s) = "\"" /\ SeparatorAt(Unsigned(s, "\""), "'") # 0
    \/ SeparatorAt(s, "m") # 0

MinuteSecondValue(s) ==
    LET t   == Unsigned(s, "\"")
        sep == IF SeparatorAt(s, "m") # 0 THEN "m" ELSE "'"
        at  == SeparatorAt(t, sep)
    IN  60 * DecimalValue(SubSeq(t, 1, at - 1)) + DecimalValue(SubSeq(t, at + 1, Len(t)))

Recognised(s) ==
    s # <<>> /\ (IsFraction(s) \/ IsQuotedSeconds(s) \/ IsMinuteSecond(s) \/ IsNumber(s))

\* the number of seconds the recognised forms stand for
SecondsOf(s) ==
    IF IsFraction(s) THEN Float(1, DecimalValue(SubSeq(s, 3, Len(s))))
    ELSE IF IsQuotedSeconds(s) THEN Float(DecimalValue(Unsigned(s, "\"")), 1)
    ELSE IF IsMinuteSecond(s) THEN Float(MinuteSecondValue(s), 1)
    ELSE Float(DecimalValue(s), 1)

\* C11: ss_to_float never raises; a recognised form gives its number of
\* seconds, the placeholder "-" and a text of no recognised form give an
\* empty result (None or ''), and no other text gives anything but a number
\* or an empty result.
C11_ShutterSpeedToSeconds ==
    converted =>
        /\ seconds.kind # "raise"
        /\ seconds.kind = "float" \/ seconds \in {None, Empty}
        /\ Recognised(ss_text) => seconds = SecondsOf(ss_text)
        /\ ss_text = <<"-">> => seconds \in {None, Empty}

(***************************************************************************)
(* Properties of the table handlers (SpecTable).                           *)
(***************************************************************************)
\* the data rows of the loaded file, and those with a cell that is not
\* empty after trimming
DataRows == Tail(csv_file)
HasText(row) ==
    \E c \in 1..Len(row) :
        row[c].kind # "text" \/ \E i \in 1..Len(row[c].s) : row[c].s[i] # " "
TextRowCount == Cardinality({ p \in 1..Len(DataRows) : HasText(DataRows[p]) })

\* the i-th (from 1) data row that has text
NthTextRow(i) ==
    DataRows[CHOOSE p \in 1..Len(DataRows) :
                /\ HasText(DataRows[p])
                /\ Cardinality({ q \in 1..p : HasText(DataRows[q]) }) = i]

AllEmpty(row, width) == row = [c \in 1..width |-> Empty]

\* C12: after a successful load the table has max(csv rows with text,
\* images) rows; row i is the i-th csv row with text, and past those an
\* all-empty row of the header's width, so a csv row without text is no row
\* of the table.
C12_LoadedTable ==
    (op = "load" /\ loaded = "ok") =>
        /\ Len(tree) = Max(TextRowCount, photos)
        /\ \A i \in 1..Len(tree) :
              IF i <= TextRowCount THEN tree[i] = NthTextRow(i)
              ELSE AllEmpty(tree[i], Len(csv_file[1]))

\* a file whose first data row has no text and whose second has, loaded
\* with two images: the row with text comes first, an empty row follows
C12_Witness ==
    /\ op = "load" /\ loaded = "ok" /\ photos = 2
    /\ Len(DataRows) = 2 /\ ~HasText(DataRows[1]) /\ DataRows[1] # <<>>
    /\ HasText(DataRows[2])
    /\ Len(tree) = 2 /\ tree[1] = DataRows[2]

\* C13 as stated: when on_export returns after composing the command list,
\* no external process has been started.
C13_NoExternalProcess ==
    (op = "export" /\ loaded = "ok" /\ ~raised) => processes = <<>>

\* C13: on_export never hands a command to run_exiftool: whether it returns
\* after composing all_commands or an exception ends it, the only external
\* process it has started is the version probe of check_exiftool.
C13_OnlyTheVersionProbe ==
    /\ \A i \in 1..Len(processes) : processes[i].cmd = "exiftool -ver"
    /\ op = "export" => processes # <<>>

\* an export that composed the commands of two images and returned
C13_Witness ==
    /\ op = "export" /\ ~raised /\ Len(all_commands) = 2
    /\ Len(processes) = 1 /\ processes[1].cmd = "exiftool -ver"

(***************************************************************************)
(* The caller's list of group_continuous_indices (SpecGroup).              *)
(***************************************************************************)
\* C14: after the call the caller's list holds the elements it held before
\* the call, in the same order.
C14_CallerListUntouched ==
    called => indices = arg

(***************************************************************************)
(* Shift-down and remove-row (SpecTable).                                  *)
(***************************************************************************)
ShiftedAt == FirstSelected(selection)
ShiftDone == op = "shift_down" /\ ~raised
RowIsEmpty(row) == \A c \in 1..Len(row) : row[c] = Empty

\* the table remove-row at the same row would leave after this shift-down
RemovedAgain == on_remove_row(tree, selection, csv_data_type, photos).tree

C16_ShiftDownFrame ==
    ShiftDone =>
        /\ \A i \in 0..(ShiftedAt - 1) : tree[i + 1] = pre[i + 1]
        /\ RowIsEmpty(tree[ShiftedAt + 1])
        /\ Len(tree[ShiftedAt + 1]) = HeaderLen(csv_data_type)
        /\ \A i \in ShiftedAt..(Len(pre) - 1) :
              \/ i + 1 < Len(tree) /\ tree[i + 2] = pre[i + 1]
              \/ i = Len(pre) - 1 /\ RowIsEmpty(pre[i + 1])
        /\ Len(tree) = Len(pre) + (IF RowIsEmpty(Last(pre)) THEN 0 ELSE 1)

\* a shift-down with an empty last row: no row is appended, the row with
\* data under the selected row has moved one down
C16_Witness ==
    /\ ShiftDone /\ RowIsEmpty(Last(pre)) /\ Len(pre) = 2 /\ ShiftedAt = 0
    /\ ~RowIsEmpty(pre[1])
    /\ Len(tree) = 2 /\ RowIsEmpty(tree[1]) /\ tree[2] = pre[1]

\* C17: after a successful load the table never has fewer rows than there
\* are images; remove-row deletes the last row when the table has more rows
\* than images and empties it otherwise.
C17_RowsCoverImages ==
    loaded = "ok" =>
        /\ Len(tree) >= photos
        /\ (op = "remove_row" /\ ~raised) =>
              IF Len(pre) > photos
              THEN Len(tree) = Len(pre) - 1
              ELSE Len(tree) = Len(pre) /\ RowIsEmpty(Last(tree))

\* a remove-row on a table with as many rows as images and data in its last
\* row: the row count stays, the last row is emptied
C17_Witness ==
    /\ loaded = "ok" /\ op = "remove_row" /\ ~raised
    /\ Len(pre) = photos /\ photos = 2 /\ ~RowIsEmpty(Last(pre))
    /\ Len(tree) = 2 /\ RowIsEmpty(Last(tree))

(***************************************************************************)
(* The frame and the repetition of on_autofill (Spec).                     *)
(***************************************************************************)
\* the table on_autofill leaves when run on the table of before with the
\* one group lo..hi selected
FilledAlone(lo, hi) == on_autofill(pre, lo..hi, csv_data_type).tree

\* C18: on_autofill changes no cell of a row outside the selection, and
\* when it runs to its end every group is filled as it would be with no
\* other group selected.
C18_UnselectedRowsUntouched ==
    op = "autofill" =>
        /\ Len(tree) = Len(pre)
        /\ \A i \in (0..(RowCount - 1)) \ selection : tree[i + 1] = pre[i + 1]
        /\ ~raised =>
              \A b \in GroupBounds : \A i \in b[1]..b[2] :
                  tree[i + 1] = FilledAlone(b[1], b[2])[i + 1]

\* two groups around unselected rows, both filled, the rows between and
\* after them as before
C18_Witness ==
    /\ Filled /\ selection = {1, 3} /\ RowCount = 5
    /\ tree[2] # pre[2] /\ tree[4] # pre[4]
    /\ tree[1] = pre[1] /\ tree[3] = pre[3] /\ tree[5] = pre[5]

\* the table a second on_autofill with the same selection would leave
FilledAgain == on_autofill(tree, selection, csv_data_type).tree

\* C19: a second on_autofill with the same selection changes no cell.
C19_AutofillIdempotent ==
    op = "autofill" => FilledAgain = tree

(***************************************************************************)
(* Saving and loading again (SpecTable).                                   *)
(***************************************************************************)
\* the table a load of the file on_save_csv writes now would build, with
\* the images of the session
LoadedAgain == combined_load(on_save_csv(tree, csv_file[1]), photos)

\* no cell of the table is a text that the save rewrites as a number
NoNumberText ==
    \A r \in 1..Len(tree) : \A c \in 1..Len(tree[r]) : ItemValue(tree[r][c]) = tree[r][c]

\* C20: saving the table and loading the written file with the same images
\* gives a table with the same rows in the same positions, all-empty rows
\* between rows with data included (stated for the tables whose cells the
\* save writes as they are).
C20_SaveLoadRoundTrip ==
    (loaded = "ok" /\ NoNumberText) =>
        /\ LoadedAgain.status = "ok"
        /\ LoadedAgain.rows = tree

====
